---- MODULE Spec2Model ----
(***************************************************************************)
(* The concurrent harvesting pipeline of the recipe collector:             *)
(* discovery (main goroutine, synchronous colly visits) -> recipeURLs      *)
(* channel -> worker pool -> completedRecipes channel -> collector         *)
(* goroutine -> recipes slice, with the ScrapingStats counters and the     *)
(* shutdown sequence close(recipeURLs) / wg.Wait / close(completedRecipes) *)
(* / done.                                                                 *)
(*                                                                         *)
(* The colly fetch engine is the environment: a visit runs OnRequest, then *)
(* either fails (OnError, Visit returns an error) or succeeds (OnHTML      *)
(* callbacks in registration order, OnScraped, Visit returns nil).  What a *)
(* page contains is chosen by the environment when the callback runs.      *)
(***************************************************************************)
EXTENDS Integers, Sequences, FiniteSets, TLC

\* ---------------------------------------------------------------- bounds
NumCats == 2          \* categories visited by main (len(categories))
maxPages == 1         \* maxPagesPerCategory handed to the pagination handler
SitePages == 3        \* listing pages the source has per category
MaxCards == 2         \* valid listing elements the source serves in one run
MaxWorkers == 2       \* stats.MaxWorkers, the size of the pool
QueueCap == 1         \* capacity of recipeURLs
ResultCap == 1        \* capacity of completedRecipes
MaxCalls == 1         \* calls of one method on the ScrapingStats object alone
MaxElapsed == 2       \* greatest reading of the clock since StartTime
MaxFinalStats == 2    \* calls of CalculateFinalStats on the object alone
MaxElements == 3      \* listing elements handed to the card handler alone
MaxVisits == 2        \* requests issued by the collector observed alone
NumCallers == 2       \* goroutines calling getRandomUserAgent
MaxAgentCalls == 10   \* calls of getRandomUserAgent
BelowZeroMs == 2      \* getRandomDelay is called with bounds from -BelowZeroMs
MaxMs == 9            \*   to MaxMs, and with those of its call sites
MaxIngredients == 2   \* items of the ingredient list of a recipe page
BelowZeroCPU == 2     \* runtime.NumCPU() is taken from -BelowZeroCPU up
MaxLogicalCPU == 34   \* greatest value taken for runtime.NumCPU()
MaxMinWorkers == 4    \* greatest minWorkers handed to calculateOptimalWorkers
MaxMaxWorkers == 20   \* greatest maxWorkers handed to calculateOptimalWorkers

Cats == 1..NumCats
Workers == 0..(MaxWorkers - 1)
Ids == 1..MaxCards
URLs == {"u1", "u2"}
Titles == {"t"}
NoItem == [id |-> 0, url |-> ""]

\* ----------------------------------------------------------------- state
VARIABLES
  mainPc,            \* position of main
  catIdx,            \* index of the category being visited
  pageNo,            \* listing page of that category being visited
  pathStyle,         \* whether the next-page links change the URL path
  visitedPages,      \* visitedPages map of the pagination handler
  recipeURLs,        \* buffered channel of RecipeData
  recipeURLsClosed,
  completedRecipes,  \* buffered channel of Recipe
  completedClosed,
  semaphore,         \* number of permits held
  wg,                \* WaitGroup counter
  supPc, supI,       \* the goroutine of startRecipeProcessor and its loop index
  wPc, wItem,        \* each worker's position and the item it holds
  workerStats,       \* each worker's private WorkerStats
  stats,             \* the shared ScrapingStats
  collPc,            \* the goroutine of startRecipeCollector
  recipes,           \* the final slice
  saved,             \* what main read from recipes and reported
  detailedStats,     \* the value GetDetailedStats returned last
  topo,              \* a call of calculateOptimalWorkers and its result
  card,              \* the last listing element handed to the card handler
  http,              \* one collector: its handlers, last response and sleep
  ua,                \* userAgentIndex, userAgentMutex and the callers
  delay,             \* a call of getRandomDelay and its result
  extract,           \* the ingredient handler on one list and what it kept
  hist               \* history of the run (observation only)

vars == <<mainPc, catIdx, pageNo, pathStyle, visitedPages, recipeURLs,
          recipeURLsClosed, completedRecipes, completedClosed, semaphore, wg,
          supPc, supI, wPc, wItem, workerStats, stats, collPc, recipes, saved,
          detailedStats, topo, card, http, ua, delay, extract, hist>>

discVars == <<mainPc, catIdx, pageNo, visitedPages>>
chanVars == <<recipeURLs, recipeURLsClosed, completedRecipes, completedClosed>>
poolVars == <<semaphore, wg, supPc, supI, wPc, wItem, workerStats>>
collVars == <<collPc, recipes>>
\* what no step of the pipeline before the final report changes
\* what is observed of single calls only
moreVars == <<delay, extract>>
callVars == <<card, http, ua, moreVars>>
restVars == <<pathStyle, detailedStats, topo, callVars>>

\* ---------------------------------------------------------------- helpers
RECURSIVE SumTo(_, _)
SumTo(f, n) == IF n = 0 THEN 0 ELSE f[n] + SumTo(f, n - 1)

\* float64(n) / d.Seconds(): the quotient n/d kept as the pair, d in clock
\* units.  With d = 0 it stands for what the float division gives, +Inf for
\* n > 0 and NaN for n = 0.
FloatDiv(n, d) == [n |-> n, d |-> d]
\* the zero value of a float64 field
ZeroFloat == FloatDiv(0, 1)
IsFinite(r) == r.d > 0
IsZeroFloat(r) == r.d > 0 /\ r.n = 0

\* NewScrapingStats: StartTime is the clock reading 0, every other field
\* has its zero value.
NewScrapingStats ==
  [totalRequests |-> 0, mainPageRequests |-> 0, recipeRequests |-> 0,
   recipesFound |-> 0, recipesCompleted |-> 0, recipesFailed |-> 0,
   startTime |-> 0, endTime |-> 0, totalDuration |-> 0,
   requestsPerSecond |-> ZeroFloat, recipesPerSecond |-> ZeroFloat,
   workerStats |-> [w \in {} |-> 0]]

\* The rates are computed without the test of the duration.
CalculateFinalStatsUnguarded(s, now) ==
  LET totalDuration == now - s.startTime IN
  [s EXCEPT !.endTime = now,
            !.totalDuration = totalDuration,
            !.requestsPerSecond = FloatDiv(s.totalRequests, totalDuration),
            !.recipesPerSecond = FloatDiv(s.recipesCompleted, totalDuration)]

\* CalculateFinalStats when time.Now() reads now: EndTime and TotalDuration
\* are set, the two rates only if TotalDuration.Seconds() > 0.
CalculateFinalStats(s, now) ==
  LET totalDuration == now - s.startTime IN
  IF totalDuration > 0
    THEN [s EXCEPT !.endTime = now,
                   !.totalDuration = totalDuration,
                   !.requestsPerSecond = FloatDiv(s.totalRequests, totalDuration),
                   !.recipesPerSecond = FloatDiv(s.recipesCompleted, totalDuration)]
    ELSE [s EXCEPT !.endTime = now, !.totalDuration = totalDuration]

IncrementMainPageRequest(s) ==
  [s EXCEPT !.totalRequests = @ + 1, !.mainPageRequests = @ + 1]
\* Only the counter of recipe requests is raised.
IncrementRecipeRequestOnly(s) == [s EXCEPT !.recipeRequests = @ + 1]
IncrementRecipeRequest(s) ==
  [s EXCEPT !.totalRequests = @ + 1, !.recipeRequests = @ + 1]
IncrementRecipesFound(s) == [s EXCEPT !.recipesFound = @ + 1]
IncrementRecipesCompleted(s) == [s EXCEPT !.recipesCompleted = @ + 1]
IncrementRecipesFailed(s) == [s EXCEPT !.recipesFailed = @ + 1]

\* UpdateWorkerStats(workerID, requests, recipes): the entry of the worker is
\* added to, or created with the two counts.
UpdateWorkerStats(s, workerID, requests, processed) ==
  [s EXCEPT !.workerStats =
     IF workerID \in DOMAIN s.workerStats
       THEN [@ EXCEPT ![workerID] =
               [requestsHandled |-> @.requestsHandled + requests,
                recipesProcessed |-> @.recipesProcessed + processed]]
       ELSE [x \in (DOMAIN @) \cup {workerID} |->
               IF x = workerID
                 THEN [requestsHandled |-> requests, recipesProcessed |-> processed]
                 ELSE @[x]]]

\* GetDetailedStats: a struct literal built under RLock.  The counters are
\* copied by value; WorkerStats: s.WorkerStats copies the map header, so the
\* returned struct and s share one map.  workerStats keeps what the map held
\* when the call returned, serial numbers the calls.
GetDetailedStats(s, n) ==
  [serial |-> n,
   totalRequests |-> s.totalRequests,
   mainPageRequests |-> s.mainPageRequests,
   recipeRequests |-> s.recipeRequests,
   recipesFound |-> s.recipesFound,
   recipesCompleted |-> s.recipesCompleted,
   recipesFailed |-> s.recipesFailed,
   startTime |-> s.startTime,
   endTime |-> s.endTime,
   totalDuration |-> s.totalDuration,
   requestsPerSecond |-> s.requestsPerSecond,
   recipesPerSecond |-> s.recipesPerSecond,
   workerStats |-> s.workerStats,
   sharesMap |-> TRUE]

\* no call of GetDetailedStats has returned yet
NoDetailedStats == [GetDetailedStats(NewScrapingStats, 0) EXCEPT !.sharesMap = FALSE]

\* no call of calculateOptimalWorkers has been made yet
NoCall == [called |-> FALSE, numLogicalCPU |-> 0, minWorkers |-> 0,
           maxWorkers |-> 0, optimalWorkers |-> 0]

\* detectPhysicalCoresFromProc: not implemented, returns 0.
detectPhysicalCoresFromProc == 0

\* No table of common counts: half of every even count.
getPhysicalCoresHalved(numLogicalCPU) ==
  IF numLogicalCPU % 2 = 0 /\ numLogicalCPU \div 2 >= 1
    THEN numLogicalCPU \div 2
    ELSE numLogicalCPU

\* getPhysicalCores on a host where runtime.NumCPU() is numLogicalCPU.
getPhysicalCores(numLogicalCPU) ==
  IF detectPhysicalCoresFromProc > 0 THEN detectPhysicalCoresFromProc
  ELSE CASE numLogicalCPU = 1 -> 1
         [] numLogicalCPU = 2 -> 2
         [] numLogicalCPU = 4 -> 2
         [] numLogicalCPU = 6 -> 6
         [] numLogicalCPU = 8 -> 4
         [] numLogicalCPU = 12 -> 6
         [] numLogicalCPU = 16 -> 8
         [] numLogicalCPU = 24 -> 12
         [] numLogicalCPU = 32 -> 16
         [] OTHER ->
              IF numLogicalCPU % 2 = 0 /\ numLogicalCPU \div 2 >= 1
                THEN numLogicalCPU \div 2
                ELSE numLogicalCPU

\* Ratio 1 for the weakest hosts too.
calculateAdaptiveRatioFlat(numCores) ==
  IF numCores <= 2 THEN 1
  ELSE IF numCores <= 4 THEN 2
  ELSE IF numCores <= 8 THEN 2
  ELSE IF numCores <= 16 THEN 1
  ELSE 1

calculateAdaptiveRatio(numCores) ==
  IF numCores <= 2 THEN 3
  ELSE IF numCores <= 4 THEN 2
  ELSE IF numCores <= 8 THEN 2
  ELSE IF numCores <= 16 THEN 1
  ELSE 1

\* The lower limit is not applied.
calculateOptimalWorkersNoLowerLimit(numLogicalCPU, minWorkers, maxWorkers) ==
  LET numPhysicalCores == getPhysicalCores(numLogicalCPU)
      adaptiveRatio == calculateAdaptiveRatio(numPhysicalCores)
      optimalWorkers == numPhysicalCores * adaptiveRatio
  IN  IF optimalWorkers > maxWorkers THEN maxWorkers ELSE optimalWorkers

\* The upper limit is not applied.
calculateOptimalWorkersNoUpperLimit(numLogicalCPU, minWorkers, maxWorkers) ==
  LET numPhysicalCores == getPhysicalCores(numLogicalCPU)
      adaptiveRatio == calculateAdaptiveRatio(numPhysicalCores)
      optimalWorkers == numPhysicalCores * adaptiveRatio
  IN  IF optimalWorkers < minWorkers THEN minWorkers ELSE optimalWorkers

\* calculateOptimalWorkers(minWorkers, maxWorkers) on a host where
\* runtime.NumCPU() is numLogicalCPU: the product, then the two limits in
\* turn.
calculateOptimalWorkers(numLogicalCPU, minWorkers, maxWorkers) ==
  LET numPhysicalCores == getPhysicalCores(numLogicalCPU)
      adaptiveRatio == calculateAdaptiveRatio(numPhysicalCores)
      optimalWorkers == numPhysicalCores * adaptiveRatio
      atLeastMin == IF optimalWorkers < minWorkers THEN minWorkers
                    ELSE optimalWorkers
  IN  IF atLeastMin > maxWorkers THEN maxWorkers ELSE atLeastMin

\* stats.WorkerStats[workerID] = workerStats: the map m with the entry of w
\* set to ws.
SetWorkerStats(m, w, ws) ==
  [x \in (DOMAIN m) \cup {w} |-> IF x = w THEN ws ELSE m[x]]

\* An access to fields of the shared ScrapingStats by a unit, with s.Mutex
\* held (Lock or RLock) or not.  For an access without the mutex the log keeps
\* whether another unit that writes the field could be running.
Locked(h, unit, fields, kind) ==
  [h EXCEPT !.access = @ \cup
     {[unit |-> unit, field |-> f, kind |-> kind, locked |-> TRUE,
       concurrentWriter |-> FALSE] : f \in fields}]
Unlocked(h, unit, fields, kind, concurrentWriter) ==
  [h EXCEPT !.access = @ \cup
     {[unit |-> unit, field |-> f, kind |-> kind, locked |-> FALSE,
       concurrentWriter |-> concurrentWriter] : f \in fields}]

\* logRecipeFound(stats.RecipesFound, title) in the card handler: the counter
\* is read after IncrementRecipesFound has released the mutex.  Only main
\* writes recipesFound.
logRecipeFound(h) == Unlocked(h, "main", {"recipesFound"}, "read", FALSE)

\* logRecipeCompleted(stats.RecipesCompleted, recipe.Name) in OnScraped of
\* worker w: the counter is read after IncrementRecipesCompleted has released
\* the mutex, while every other worker that has not left its loop may write it.
logRecipeCompleted(h, w) ==
  Unlocked(h, "worker", {"recipesCompleted"}, "read",
           \E v \in Workers \ {w} : wPc[v] \notin {"done", "exited"})

\* The fields of ScrapingStats that the model keeps.
StatsFields ==
  {"totalRequests", "mainPageRequests", "recipeRequests", "recipesFound",
   "recipesCompleted", "recipesFailed", "workerStats"}

\* printDetailedStats: CalculateFinalStats reads two counters under Lock,
\* GetDetailedStats copies the fields under RLock, and the report then ranges
\* over detailedStats.WorkerStats, the map of stats itself, with no lock held.
printDetailedStats(h) ==
  Unlocked(Locked(Locked(h, "main", {"totalRequests", "recipesCompleted"}, "read"),
                  "main", StatsFields, "read"),
           "main", {"workerStats"}, "read",
           \E v \in Workers : wPc[v] \notin {"done", "exited"})

\* e.Request.URL.Path of listing page p of category c: a "?page=" link keeps
\* the path of the category, a "/page/p" link does not.
baseCategory(c, p) == IF pathStyle = "query" THEN <<c, 1>> ELSE <<c, p>>

NoCollector == [program |-> "", kind |-> "", pc |-> "idle", requests |-> 0,
                statusCode |-> 0, slept |-> 0]

\* var userAgents = []string{...}, as a sequence indexed from 1
userAgents ==
  << "Mozilla/5.0 (Windows NT 10.0; Win64; x64) AppleWebKit/537.36 (KHTML, like Gecko) Chrome/120.0.0.0 Safari/537.36",
     "Mozilla/5.0 (Windows NT 10.0; Win64; x64) AppleWebKit/537.36 (KHTML, like Gecko) Chrome/119.0.0.0 Safari/537.36",
     "Mozilla/5.0 (Macintosh; Intel Mac OS X 10_15_7) AppleWebKit/537.36 (KHTML, like Gecko) Chrome/120.0.0.0 Safari/537.36",
     "Mozilla/5.0 (Macintosh; Intel Mac OS X 10_15_7) AppleWebKit/605.1.15 (KHTML, like Gecko) Version/17.1 Safari/605.1.15",
     "Mozilla/5.0 (Windows NT 10.0; Win64; x64; rv:121.0) Gecko/20100101 Firefox/121.0",
     "Mozilla/5.0 (Macintosh; Intel Mac OS X 10_15_7) AppleWebKit/605.1.15 (KHTML, like Gecko) Version/17.0 Safari/605.1.15",
     "Mozilla/5.0 (X11; Linux x86_64) AppleWebKit/537.36 (KHTML, like Gecko) Chrome/120.0.0.0 Safari/537.36",
     "Mozilla/5.0 (Windows NT 10.0; Win64; x64) AppleWebKit/537.36 (KHTML, like Gecko) Chrome/120.0.0.0 Safari/537.36 Edg/120.0.0.0" >>

\* the goroutines that call getRandomUserAgent
Callers == 1..NumCallers

\* var userAgentIndex = 0, the mutex free, nobody in the function
NoUserAgentCalls ==
  [index |-> 0, mutex |-> 0, pc |-> [c \in Callers |-> "idle"],
   tmp |-> [c \in Callers |-> 0], started |-> 0, written |-> 0,
   returned |-> <<>>]

NoDelay == [called |-> FALSE, minMs |-> 0, maxMs |-> 0, d |-> 0]

\* var ingredients []Ingredient, before the first list item
NoExtraction == [n |-> 0, item |-> [quantity |-> <<>>, unit |-> <<>>,
                                   name |-> <<>>, rest |-> <<>>],
                 ingredients |-> <<>>]

NoCard == [n |-> 0, page |-> "", title |-> ""]

InitPipeline ==
  /\ card = NoCard
  /\ extract = NoExtraction
  /\ delay = NoDelay
  /\ ua = NoUserAgentCalls
  /\ http = NoCollector
  /\ mainPc = "visit"
  /\ catIdx = 1
  /\ pageNo = 1
  /\ pathStyle \in {"query", "path"}
  /\ visitedPages = [k \in Cats \X (1..SitePages) |-> 0]
  /\ recipeURLs = <<>>
  /\ recipeURLsClosed = FALSE
  /\ completedRecipes = <<>>
  /\ completedClosed = FALSE
  /\ semaphore = 0
  /\ wg = 0
  /\ supPc = "spawn"
  /\ supI = 0
  /\ wPc = [w \in Workers |-> "unborn"]
  /\ wItem = [w \in Workers |-> NoItem]
  /\ workerStats = [w \in Workers |-> [requestsHandled |-> 0, recipesProcessed |-> 0]]
  /\ stats = NewScrapingStats
  /\ collPc = "recv"
  /\ recipes = <<>>
  /\ saved = [read |-> FALSE, recipes |-> <<>>, saveFailed |-> FALSE,
              reported |-> FALSE,
              successRate |-> [nan |-> FALSE, tenths |-> 0]]
  /\ hist = [nextId |-> 1,
             fetches |-> [c \in Cats |-> 0],
             chained |-> [c \in Cats |-> TRUE],
             listed |-> [c \in Cats |-> 0],
             paged |-> FALSE,
             listErr |-> FALSE,
             visitErrs |-> 0,
             dropped |-> 0,
             enqueued |-> {},
             takenBy |-> [i \in Ids |-> <<>>],
             completed |-> [i \in Ids |-> 0],
             failed |-> [i \in Ids |-> 0],
             emitted |-> [i \in Ids |-> 0],
             fetchOk |-> 0,
             fetchErr |-> 0,
             sendOnClosedURLs |-> FALSE,
             sendOnClosedCompleted |-> FALSE,
             atClose |-> {},
             closes |-> [recipeURLs |-> 0, completedRecipes |-> 0],
             requests |-> [i \in Ids |-> 0],
             published |-> [w \in Workers |-> 0],
             access |-> {},
             finalized |-> 0]

Init ==
  /\ InitPipeline
  /\ detailedStats = NoDetailedStats
  /\ topo = NoCall

\* ------------------------------------------------- channels (Go semantics)
\* A send on a closed channel panics; the panic is recorded, the value is lost.
Send(q, v) == Append(q, v)
Recv(q) == Tail(q)

\* --------------------------------------------- discovery stage (main)
\* `break` in place of `continue`: the loop over the categories is left at
\* once.
NextCategoryBreaks ==
  /\ pageNo' = 1
  /\ catIdx' = catIdx
  /\ mainPc' = "close"

\* for i, category := range categories: the step to the next category, or to
\* phase 8 after the last one.
NextCategory ==
  /\ pageNo' = 1
  /\ IF catIdx < NumCats
       THEN /\ catIdx' = catIdx + 1
            /\ mainPc' = "visit"
       ELSE /\ catIdx' = catIdx
            /\ mainPc' = "close"

\* The error ends main on the spot, as a log.Fatal would.
MainVisitErrorFatal ==
  /\ mainPc = "visit"
  /\ mainPc' = "finished"
  /\ UNCHANGED <<catIdx, pageNo>>
  /\ stats' = IncrementMainPageRequest(stats)
  /\ hist' = [hist EXCEPT !.fetches[catIdx] = @ + 1, !.listErr = TRUE,
                          !.visitErrs = @ + 1,
                          !.chained[catIdx] = FALSE]
  /\ UNCHANGED <<restVars, visitedPages, chanVars, poolVars, collVars, saved>>

\* mainCollector.Visit(url) when the fetch fails: OnRequest runs
\* IncrementMainPageRequest, OnError runs, Visit returns the error.  The error
\* of a nested (pagination) Visit is dropped by the handler; the error of the
\* category's own Visit makes main `continue`.  Either way the next category
\* follows.
MainVisitError ==
  /\ mainPc = "visit"
  /\ NextCategory
  /\ stats' = IncrementMainPageRequest(stats)
  /\ hist' = Locked([hist EXCEPT !.fetches[catIdx] = @ + 1, !.listErr = TRUE,
                          !.visitErrs = @ + 1,
                          !.chained[catIdx] = FALSE],
                    "main", {"totalRequests", "mainPageRequests"}, "write")
  /\ UNCHANGED <<restVars, visitedPages, chanVars, poolVars, collVars, saved>>

\* mainCollector.Visit(url) when the fetch succeeds: OnRequest runs
\* IncrementMainPageRequest, then the OnHTML callbacks run, cards first.
MainVisitOk ==
  /\ mainPc = "visit"
  /\ mainPc' = "cards"
  /\ stats' = IncrementMainPageRequest(stats)
  /\ hist' = Locked([hist EXCEPT !.fetches[catIdx] = @ + 1],
                    "main", {"totalRequests", "mainPageRequests"}, "write")
  /\ UNCHANGED <<catIdx, pageNo, restVars, visitedPages, chanVars, poolVars,
                 collVars, saved>>

\* IncrementRecipesFound moved into the successful send: a recipe ignored
\* because the channel is full is not counted as found.
OnCardCountsQueuedOnly(page, title) ==
  IF page # "" /\ title # ""
    THEN LET recipeData == [id |-> hist.nextId, url |-> page] IN
         IF Len(recipeURLs) < QueueCap /\ ~recipeURLsClosed
           THEN /\ stats' = IncrementRecipesFound(stats)
                /\ recipeURLs' = Send(recipeURLs, recipeData)
                /\ hist' = Locked([hist EXCEPT !.nextId = @ + 1,
                                        !.listed[catIdx] = @ + 1,
                                        !.enqueued = @ \cup {hist.nextId}],
                                  "main", {"recipesFound"}, "write")
           ELSE /\ stats' = stats
                /\ recipeURLs' = recipeURLs
                /\ hist' = Locked([hist EXCEPT !.nextId = @ + 1,
                                        !.listed[catIdx] = @ + 1,
                                        !.dropped = @ + 1],
                                  "main", {"recipesFound"}, "write")
    ELSE /\ stats' = stats
         /\ recipeURLs' = recipeURLs
         /\ hist' = hist

\* A plain send in place of the select with a default: the handler waits
\* for room in the channel.
OnCardBlockingSend(page, title) ==
  IF page # "" /\ title # ""
    THEN LET recipeData == [id |-> hist.nextId, url |-> page] IN
         /\ stats' = IncrementRecipesFound(stats)
         /\ ~recipeURLsClosed
         /\ Len(recipeURLs) < QueueCap
         /\ recipeURLs' = Send(recipeURLs, recipeData)
         /\ hist' = Locked([hist EXCEPT !.nextId = @ + 1,
                                 !.listed[catIdx] = @ + 1,
                                 !.enqueued = @ \cup {hist.nextId}],
                           "main", {"recipesFound"}, "write")
    ELSE /\ stats' = stats
         /\ recipeURLs' = recipeURLs
         /\ hist' = hist

\* The title is not looked at: an element with a link counts.
OnCardAnyTitle(page, title) ==
  IF page # ""
    THEN LET recipeData == [id |-> hist.nextId, url |-> page] IN
         /\ stats' = IncrementRecipesFound(stats)
         /\ IF Len(recipeURLs) < QueueCap /\ ~recipeURLsClosed
              THEN /\ recipeURLs' = Send(recipeURLs, recipeData)
                   /\ hist' = [hist EXCEPT !.nextId = @ + 1,
                                           !.listed[catIdx] = @ + 1,
                                           !.enqueued = @ \cup {hist.nextId}]
              ELSE /\ recipeURLs' = recipeURLs
                   /\ hist' = [hist EXCEPT !.nextId = @ + 1,
                                           !.listed[catIdx] = @ + 1,
                                           !.dropped = @ + 1]
    ELSE /\ stats' = stats
         /\ recipeURLs' = recipeURLs
         /\ hist' = hist

\* OnHTML(".mntl-card") for one element with the given href and title:
\* IncrementRecipesFound and the non-blocking send, or nothing.
OnCard(page, title) ==
  IF page # "" /\ title # ""
    THEN LET recipeData == [id |-> hist.nextId, url |-> page] IN
         /\ stats' = IncrementRecipesFound(stats)
         /\ IF recipeURLsClosed
              THEN \* send on a closed channel
                   /\ recipeURLs' = recipeURLs
                   /\ hist' = Locked([hist EXCEPT !.nextId = @ + 1,
                                           !.listed[catIdx] = @ + 1,
                                           !.sendOnClosedURLs = TRUE],
                                     "main", {"recipesFound"}, "write")
              ELSE IF Len(recipeURLs) < QueueCap
                THEN /\ recipeURLs' = Send(recipeURLs, recipeData)
                     /\ hist' = logRecipeFound(
                                  Locked([hist EXCEPT !.nextId = @ + 1,
                                            !.listed[catIdx] = @ + 1,
                                            !.enqueued = @ \cup {hist.nextId}],
                                         "main", {"recipesFound"}, "write"))
                ELSE \* default: channel full, the recipe is ignored
                     /\ recipeURLs' = recipeURLs
                     /\ hist' = Locked([hist EXCEPT !.nextId = @ + 1,
                                             !.listed[catIdx] = @ + 1,
                                             !.dropped = @ + 1],
                                       "main", {"recipesFound"}, "write")
    ELSE /\ stats' = stats
         /\ recipeURLs' = recipeURLs
         /\ hist' = hist

MainOnCard ==
  /\ mainPc = "cards"
  /\ hist.nextId <= MaxCards
  /\ \E page \in URLs \cup {""}, title \in Titles \cup {""} : OnCard(page, title)
  /\ UNCHANGED <<discVars, restVars, recipeURLsClosed, completedRecipes,
                 completedClosed, poolVars, collVars, saved>>

\* No further card, and the page has no a[data-testid='pagination-next']:
\* Visit returns nil.
MainNoNextLink ==
  /\ mainPc = "cards"
  /\ NextCategory
  /\ hist' = [hist EXCEPT !.chained[catIdx] = FALSE]
  /\ UNCHANGED <<restVars, visitedPages, chanVars, poolVars, stats, collVars,
                 saved>>

\* The counter is raised and the link followed whatever the counter says.
MainOnNextLinkUnlimited ==
  /\ mainPc = "cards"
  /\ pageNo < SitePages
  /\ visitedPages' = [visitedPages EXCEPT ![baseCategory(catIdx, pageNo)] = @ + 1]
  /\ pageNo' = pageNo + 1
  /\ mainPc' = "visit"
  /\ catIdx' = catIdx
  /\ hist' = [hist EXCEPT !.paged = TRUE]
  /\ UNCHANGED <<restVars, chanVars, poolVars, stats, collVars, saved>>

\* The link is counted as followed and left for later: main goes on to the
\* next category without waiting for the page.
MainOnNextLinkDeferred ==
  /\ mainPc = "cards"
  /\ pageNo < SitePages
  /\ LET pagesVisited == visitedPages[baseCategory(catIdx, pageNo)] IN
     IF pagesVisited < maxPages
       THEN /\ visitedPages' = [visitedPages EXCEPT
                                  ![baseCategory(catIdx, pageNo)] = pagesVisited + 1]
            /\ NextCategory
       ELSE /\ visitedPages' = visitedPages
            /\ NextCategory
  /\ hist' = [hist EXCEPT !.paged = TRUE]
  /\ UNCHANGED <<restVars, chanVars, poolVars, stats, collVars, saved>>

\* No further card; OnHTML("a[data-testid='pagination-next']"): follow the
\* link while the counter of the current page's path is under maxPages.
MainOnNextLink ==
  /\ mainPc = "cards"
  /\ pageNo < SitePages
  /\ LET pagesVisited == visitedPages[baseCategory(catIdx, pageNo)] IN
     IF pagesVisited < maxPages
       THEN /\ visitedPages' = [visitedPages EXCEPT
                                  ![baseCategory(catIdx, pageNo)] = pagesVisited + 1]
            /\ pageNo' = pageNo + 1
            /\ mainPc' = "visit"
            /\ catIdx' = catIdx
       ELSE /\ visitedPages' = visitedPages
            /\ NextCategory
  /\ hist' = [hist EXCEPT !.paged = TRUE]
  /\ UNCHANGED <<restVars, chanVars, poolVars, stats, collVars, saved>>

\* close(recipeURLs); what is buffered stays in the channel.
MainClose ==
  /\ mainPc = "close"
  /\ mainPc' = "waitDone"
  /\ recipeURLsClosed' = TRUE
  /\ hist' = [hist EXCEPT !.atClose = {recipeURLs[k].id : k \in DOMAIN recipeURLs},
                          !.closes.recipeURLs = @ + 1]
  /\ UNCHANGED <<catIdx, pageNo, restVars, visitedPages, recipeURLs,
                 completedRecipes, completedClosed, poolVars, stats, collVars,
                 saved>>

\* ------------------------------------------ worker pool (startRecipeProcessor)
\* for i := 0; i < maxWorkers; i++ { wg.Add(1); go func(workerID) ... }
SupSpawn ==
  /\ supPc = "spawn"
  /\ supI < MaxWorkers
  /\ wg' = wg + 1
  /\ wPc' = [wPc EXCEPT ![supI] = "range"]
  /\ supI' = supI + 1
  /\ UNCHANGED <<discVars, restVars, chanVars, semaphore, supPc, wItem,
                 workerStats, stats, collVars, saved, hist>>

\* wg.Wait() left out: the loop exit goes straight on to the close.
SupWaitNoBarrier ==
  /\ supPc = "spawn"
  /\ supI = MaxWorkers
  /\ supPc' = "close"
  /\ UNCHANGED <<discVars, restVars, chanVars, semaphore, wg, supI, wPc, wItem,
                 workerStats, stats, collVars, saved, hist>>

\* wg.Wait() returns once the counter is zero.
SupWait ==
  /\ supPc = "spawn"
  /\ supI = MaxWorkers
  /\ wg = 0
  /\ supPc' = "close"
  /\ UNCHANGED <<discVars, restVars, chanVars, semaphore, wg, supI, wPc, wItem,
                 workerStats, stats, collVars, saved, hist>>

\* close(completedRecipes) left out.
SupCloseForgotten ==
  /\ supPc = "close"
  /\ supPc' = "done"
  /\ UNCHANGED <<discVars, restVars, chanVars, semaphore, wg, supI, wPc, wItem,
                 workerStats, stats, collVars, saved, hist>>

\* close(completedRecipes)
SupClose ==
  /\ supPc = "close"
  /\ supPc' = "done"
  /\ completedClosed' = TRUE
  /\ hist' = [hist EXCEPT !.closes.completedRecipes = @ + 1]
  /\ UNCHANGED <<discVars, restVars, recipeURLs, recipeURLsClosed,
                 completedRecipes, semaphore, wg, supI, wPc, wItem, workerStats,
                 stats, collVars, saved>>

\* The head of the channel is read but not received.
WorkerDequeuePeek(w) ==
  /\ wPc[w] = "range"
  /\ recipeURLs # <<>>
  /\ wItem' = [wItem EXCEPT ![w] = Head(recipeURLs)]
  /\ recipeURLs' = recipeURLs
  /\ wPc' = [wPc EXCEPT ![w] = "acquire"]
  /\ hist' = [hist EXCEPT !.takenBy[Head(recipeURLs).id] = Append(@, w)]
  /\ UNCHANGED <<discVars, restVars, recipeURLsClosed, completedRecipes,
                 completedClosed, semaphore, wg, supPc, supI, workerStats,
                 stats, collVars, saved>>

\* for recipeData := range recipeURLs: receive the head of the channel.
WorkerDequeue(w) ==
  /\ wPc[w] = "range"
  /\ recipeURLs # <<>>
  /\ wItem' = [wItem EXCEPT ![w] = Head(recipeURLs)]
  /\ recipeURLs' = Recv(recipeURLs)
  /\ wPc' = [wPc EXCEPT ![w] = "acquire"]
  /\ hist' = [hist EXCEPT !.takenBy[Head(recipeURLs).id] = Append(@, w)]
  /\ UNCHANGED <<discVars, restVars, recipeURLsClosed, completedRecipes,
                 completedClosed, semaphore, wg, supPc, supI, workerStats,
                 stats, collVars, saved>>

\* semaphore <- struct{}{}, then processRecipeReusable up to
\* recipeCollector.Visit, whose OnRequest runs IncrementRecipeRequest.
WorkerAcquire(w) ==
  /\ wPc[w] = "acquire"
  /\ semaphore < MaxWorkers
  /\ semaphore' = semaphore + 1
  /\ stats' = IncrementRecipeRequest(stats)
  /\ wPc' = [wPc EXCEPT ![w] = "fetch"]
  /\ hist' = Locked([hist EXCEPT !.requests[wItem[w].id] = @ + 1],
                    "worker", {"totalRequests", "recipeRequests"}, "write")
  /\ UNCHANGED <<discVars, restVars, chanVars, wg, supPc, supI, wItem,
                 workerStats, collVars, saved>>

\* Back to the range loop with the slot kept.
ReleaseKeepsSlot(w) ==
  /\ semaphore' = semaphore
  /\ wItem' = [wItem EXCEPT ![w] = NoItem]
  /\ wPc' = [wPc EXCEPT ![w] = "range"]

\* <-semaphore, back to the range loop.
Release(w) ==
  /\ semaphore > 0
  /\ semaphore' = semaphore - 1
  /\ wItem' = [wItem EXCEPT ![w] = NoItem]
  /\ wPc' = [wPc EXCEPT ![w] = "range"]

\* The failed item is put back on recipeURLs for another attempt when the
\* channel has room.
WorkerFetchErrorRequeues(w) ==
  /\ wPc[w] = "fetch"
  /\ stats' = IncrementRecipesFailed(stats)
  /\ Release(w)
  /\ hist' = Locked([hist EXCEPT !.failed[wItem[w].id] = @ + 1, !.fetchErr = @ + 1],
                    "worker", {"recipesFailed"}, "write")
  /\ recipeURLs' = IF ~recipeURLsClosed /\ Len(recipeURLs) < QueueCap
                     THEN Send(recipeURLs, wItem[w])
                     ELSE recipeURLs
  /\ UNCHANGED <<discVars, restVars, recipeURLsClosed, completedRecipes,
                 completedClosed, wg, supPc, supI, workerStats, collVars, saved>>

\* The worker counts the request of a failed fetch as handled.
WorkerFetchErrorHandled(w) ==
  /\ wPc[w] = "fetch"
  /\ stats' = IncrementRecipesFailed(stats)
  /\ semaphore' = semaphore - 1
  /\ wItem' = [wItem EXCEPT ![w] = NoItem]
  /\ wPc' = [wPc EXCEPT ![w] = "range"]
  /\ workerStats' = [workerStats EXCEPT ![w].requestsHandled = @ + 1]
  /\ hist' = [hist EXCEPT !.failed[wItem[w].id] = @ + 1, !.fetchErr = @ + 1]
  /\ UNCHANGED <<discVars, restVars, chanVars, wg, supPc, supI, collVars, saved>>

\* The failure is logged and not counted.
WorkerFetchErrorUncounted(w) ==
  /\ wPc[w] = "fetch"
  /\ stats' = stats
  /\ Release(w)
  /\ hist' = [hist EXCEPT !.failed[wItem[w].id] = @ + 1, !.fetchErr = @ + 1]
  /\ UNCHANGED <<discVars, restVars, chanVars, wg, supPc, supI, workerStats,
                 collVars, saved>>

\* The detail fetch fails: OnError, Visit returns err, IncrementRecipesFailed,
\* and the permit is released.
WorkerFetchError(w) ==
  /\ wPc[w] = "fetch"
  /\ stats' = IncrementRecipesFailed(stats)
  /\ Release(w)
  /\ hist' = Locked([hist EXCEPT !.failed[wItem[w].id] = @ + 1, !.fetchErr = @ + 1],
                    "worker", {"recipesFailed"}, "write")
  /\ UNCHANGED <<discVars, restVars, chanVars, wg, supPc, supI, workerStats,
                 collVars, saved>>

\* OnScraped also fires for a fetch that failed: the failure is counted and
\* the send is reached all the same.
WorkerOnScrapedAfterError(w) ==
  /\ wPc[w] = "fetch"
  /\ \/ /\ stats' = IncrementRecipesCompleted(stats)
        /\ hist' = Locked([hist EXCEPT !.completed[wItem[w].id] = @ + 1, !.fetchOk = @ + 1],
                          "worker", {"recipesCompleted"}, "write")
     \/ /\ stats' = IncrementRecipesFailed(stats)
        /\ hist' = Locked([hist EXCEPT !.failed[wItem[w].id] = @ + 1, !.fetchErr = @ + 1],
                          "worker", {"recipesFailed"}, "write")
  /\ wPc' = [wPc EXCEPT ![w] = "emit"]
  /\ UNCHANGED <<discVars, restVars, chanVars, semaphore, wg, supPc, supI,
                 wItem, workerStats, collVars, saved>>

\* The detail fetch succeeds: OnHTML fills the recipe, OnScraped runs
\* IncrementRecipesCompleted and reaches the send.
WorkerOnScraped(w) ==
  /\ wPc[w] = "fetch"
  /\ stats' = IncrementRecipesCompleted(stats)
  /\ wPc' = [wPc EXCEPT ![w] = "emit"]
  /\ hist' = Locked([hist EXCEPT !.completed[wItem[w].id] = @ + 1, !.fetchOk = @ + 1],
                    "worker", {"recipesCompleted"}, "write")
  /\ UNCHANGED <<discVars, restVars, chanVars, semaphore, wg, supPc, supI,
                 wItem, workerStats, collVars, saved>>

\* The worker also writes its WorkerStats into stats.WorkerStats after every
\* recipe it processed.
WorkerEmitPublishes(w) ==
  /\ wPc[w] = "emit"
  /\ ~completedClosed
  /\ Len(completedRecipes) < ResultCap
  /\ completedRecipes' =
       Send(completedRecipes, [page |-> wItem[w].url, id |-> wItem[w].id])
  /\ workerStats' = [workerStats EXCEPT
                       ![w].requestsHandled = @ + 1,
                       ![w].recipesProcessed = @ + 1]
  /\ stats' = [stats EXCEPT !.workerStats = SetWorkerStats(@, w, workerStats'[w])]
  /\ hist' = Locked([hist EXCEPT !.emitted[wItem[w].id] = @ + 1,
                          !.published[w] = @ + 1],
                    "worker", {"workerStats"}, "write")
  /\ Release(w)
  /\ UNCHANGED <<discVars, restVars, recipeURLs, recipeURLsClosed,
                 completedClosed, wg, supPc, supI, collVars, saved>>

\* completedRecipes <- *recipe, then Visit returns nil, the worker counts the
\* recipe in its own WorkerStats and releases the permit.
WorkerEmit(w) ==
  /\ wPc[w] = "emit"
  /\ IF completedClosed
       THEN \* send on a closed channel
            /\ hist' = [hist EXCEPT !.sendOnClosedCompleted = TRUE]
            /\ wPc' = [wPc EXCEPT ![w] = "panic"]
            /\ UNCHANGED <<completedRecipes, workerStats, semaphore, wItem>>
       ELSE /\ Len(completedRecipes) < ResultCap
            /\ completedRecipes' =
                 Send(completedRecipes, [page |-> wItem[w].url, id |-> wItem[w].id])
            /\ workerStats' = [workerStats EXCEPT
                                 ![w].requestsHandled = @ + 1,
                                 ![w].recipesProcessed = @ + 1]
            /\ hist' = logRecipeCompleted(
                         [hist EXCEPT !.emitted[wItem[w].id] = @ + 1], w)
            /\ Release(w)
  /\ UNCHANGED <<discVars, restVars, recipeURLs, recipeURLsClosed,
                 completedClosed, wg, supPc, supI, stats, collVars, saved>>

\* The range loop is left as soon as the channel is closed, whatever it
\* still holds.
WorkerPublishOnClose(w) ==
  /\ wPc[w] = "range"
  /\ recipeURLsClosed
  /\ stats' = [stats EXCEPT !.workerStats = SetWorkerStats(@, w, workerStats[w])]
  /\ wPc' = [wPc EXCEPT ![w] = "done"]
  /\ hist' = Locked([hist EXCEPT !.published[w] = @ + 1],
                    "worker", {"workerStats"}, "write")
  /\ UNCHANGED <<discVars, restVars, chanVars, semaphore, wg, supPc, supI,
                 wItem, workerStats, collVars, saved>>

\* The range loop ends when the channel is closed and empty; then
\* stats.WorkerStats[workerID] = workerStats, under stats.Mutex.
WorkerPublish(w) ==
  /\ wPc[w] = "range"
  /\ recipeURLs = <<>>
  /\ recipeURLsClosed
  /\ stats' = [stats EXCEPT !.workerStats = SetWorkerStats(@, w, workerStats[w])]
  /\ wPc' = [wPc EXCEPT ![w] = "done"]
  /\ hist' = Locked([hist EXCEPT !.published[w] = @ + 1],
                    "worker", {"workerStats"}, "write")
  /\ UNCHANGED <<discVars, restVars, chanVars, semaphore, wg, supPc, supI,
                 wItem, workerStats, collVars, saved>>

\* Each worker closes completedRecipes when it leaves (a deferred close next
\* to the deferred wg.Done).
WorkerDoneCloses(w) ==
  /\ wPc[w] = "done"
  /\ wg' = wg - 1
  /\ wPc' = [wPc EXCEPT ![w] = "exited"]
  /\ completedClosed' = TRUE
  /\ hist' = [hist EXCEPT !.closes.completedRecipes = @ + 1]
  /\ UNCHANGED <<discVars, restVars, recipeURLs, recipeURLsClosed,
                 completedRecipes, semaphore, supPc, supI, wItem, workerStats,
                 stats, collVars, saved>>

\* defer wg.Done()
WorkerDone(w) ==
  /\ wPc[w] = "done"
  /\ wg' = wg - 1
  /\ wPc' = [wPc EXCEPT ![w] = "exited"]
  /\ UNCHANGED <<discVars, restVars, chanVars, semaphore, supPc, supI, wItem,
                 workerStats, stats, collVars, saved, hist>>

\* ------------------------------------------ result collector
\* The received recipe replaces the slice instead of being appended to it.
CollRecvOverwrites ==
  /\ collPc = "recv"
  /\ completedRecipes # <<>>
  /\ recipes' = <<Head(completedRecipes)>>
  /\ completedRecipes' = Recv(completedRecipes)
  /\ UNCHANGED <<discVars, restVars, recipeURLs, recipeURLsClosed,
                 completedClosed, poolVars, stats, collPc, saved, hist>>

\* The received recipe is appended twice.
CollRecvAppendsTwice ==
  /\ collPc = "recv"
  /\ completedRecipes # <<>>
  /\ recipes' = Append(Append(recipes, Head(completedRecipes)),
                       Head(completedRecipes))
  /\ completedRecipes' = Recv(completedRecipes)
  /\ UNCHANGED <<discVars, restVars, recipeURLs, recipeURLsClosed,
                 completedClosed, poolVars, stats, collPc, saved, hist>>

\* for recipe := range completedRecipes { *recipes = append(*recipes, recipe) }
CollRecv ==
  /\ collPc = "recv"
  /\ completedRecipes # <<>>
  /\ recipes' = Append(recipes, Head(completedRecipes))
  /\ completedRecipes' = Recv(completedRecipes)
  /\ UNCHANGED <<discVars, restVars, recipeURLs, recipeURLsClosed,
                 completedClosed, poolVars, stats, collPc, saved, hist>>

\* The loop is left as soon as the channel is found empty, closed or not.
CollRangeEndOnEmpty ==
  /\ collPc = "recv"
  /\ completedRecipes = <<>>
  /\ collPc' = "signal"
  /\ UNCHANGED <<discVars, restVars, chanVars, poolVars, stats, recipes, saved,
                 hist>>

\* The range over completedRecipes ends when the channel is closed and empty.
CollRangeEnd ==
  /\ collPc = "recv"
  /\ completedRecipes = <<>>
  /\ completedClosed
  /\ collPc' = "signal"
  /\ UNCHANGED <<discVars, restVars, chanVars, poolVars, stats, recipes, saved,
                 hist>>

\* done <- true meets <-done in main (unbuffered channel).
Signal ==
  /\ collPc = "signal"
  /\ mainPc = "waitDone"
  /\ collPc' = "exited"
  /\ mainPc' = "save"
  /\ UNCHANGED <<catIdx, pageNo, restVars, visitedPages, chanVars, poolVars,
                 stats, recipes, saved, hist>>

\* ------------------------------------------ phase 9 of main
\* The ratio taken on the integers, before the conversion to float64.
SuccessRateIntegerDivision(completed, found) ==
  IF found = 0
    THEN [nan |-> TRUE, tenths |-> 0]
    ELSE [nan |-> FALSE, tenths |-> 1000 * (completed \div found)]

\* Taux de succès, float64(completed)/float64(found)*100 printed with %.1f:
\* tenths of a percent to the nearest, NaN for 0/0.
SuccessRate(completed, found) ==
  IF found = 0
    THEN [nan |-> TRUE, tenths |-> 0]
    ELSE [nan |-> FALSE, tenths |-> (2000 * completed + found) \div (2 * found)]

\* saveRecipesToFile(recipes, filename) succeeds.
MainSave ==
  /\ mainPc = "save"
  /\ mainPc' = "printStats"
  /\ saved' = [saved EXCEPT !.read = TRUE, !.recipes = recipes]
  /\ UNCHANGED <<catIdx, pageNo, restVars, visitedPages, chanVars, poolVars,
                 stats, collVars, hist>>

\* saveRecipesToFile fails: main logs the error and returns.
MainSaveError ==
  /\ mainPc = "save"
  /\ mainPc' = "finished"
  /\ saved' = [saved EXCEPT !.read = TRUE, !.recipes = recipes,
                            !.saveFailed = TRUE]
  /\ UNCHANGED <<catIdx, pageNo, restVars, visitedPages, chanVars, poolVars,
                 stats, collVars, hist>>

\* printDetailedStats: CalculateFinalStats at some reading of the clock,
\* GetDetailedStats, the report.
MainPrintStats ==
  /\ mainPc = "printStats"
  /\ mainPc' = "finished"
  /\ \E now \in stats.endTime..MaxElapsed :
       stats' = CalculateFinalStats(stats, now)
  /\ saved' = [saved EXCEPT !.reported = TRUE, !.successRate =
                 SuccessRate(stats.recipesCompleted, stats.recipesFound)]
  /\ hist' = [printDetailedStats(hist) EXCEPT !.finalized = @ + 1]
  /\ detailedStats' = GetDetailedStats(stats', detailedStats.serial + 1)
  /\ UNCHANGED <<catIdx, pageNo, pathStyle, topo, callVars, visitedPages, chanVars,
                 poolVars, collVars>>

\* ------------------------------------------ specification
Discovery ==
  \/ MainVisitError \/ MainVisitOk \/ MainOnCard
  \/ MainNoNextLink \/ MainOnNextLink \/ MainClose

Supervisor == SupSpawn \/ SupWait \/ SupClose

Worker(w) ==
  \/ WorkerDequeue(w) \/ WorkerAcquire(w)
  \/ WorkerFetchError(w) \/ WorkerOnScraped(w)
  \/ WorkerEmit(w) \/ WorkerPublish(w) \/ WorkerDone(w)

Collector == CollRecv \/ CollRangeEnd \/ Signal

Finish == MainSave \/ MainSaveError \/ MainPrintStats

Next ==
  \/ Discovery
  \/ Supervisor
  \/ \E w \in Workers : Worker(w)
  \/ Collector
  \/ Finish

Spec == Init /\ [][Next]_vars

\* The goroutines are scheduled fairly and every fetch returns.
LiveSpec ==
  /\ Spec
  /\ WF_vars(Discovery)
  /\ WF_vars(Supervisor)
  /\ \A w \in Workers : WF_vars(Worker(w))
  /\ WF_vars(Collector)
  /\ WF_vars(Finish)

\* ------------------------------------------ observations
Discovered == 1..(hist.nextId - 1)
AllExited == \A w \in Workers : wPc[w] = "exited"
Drained == mainPc \in {"save", "printStats", "finished"}
Holders(i) == {w \in Workers : wItem[w].id = i}
InQueue(i) == \E k \in 1..Len(recipeURLs) : recipeURLs[k].id = i
ListedTotal == SumTo(hist.listed, NumCats)
\* discovered items that no worker ever dequeued
itemsDropped == Cardinality({i \in Discovered : hist.takenBy[i] = <<>>})
Abs(x) == IF x < 0 THEN -x ELSE x

\* ------------------------------------------ shutdown order
\* C1: completedRecipes is closed only after every worker has left its range
\* loop and wg.Wait has returned (all workers started, counter back to zero),
\* and no worker ever sends on the closed completedRecipes.
C1_ResultQueueClosedAfterBarrier ==
  /\ ~hist.sendOnClosedCompleted
  /\ completedClosed => /\ AllExited
                        /\ supI = MaxWorkers
                        /\ wg = 0
                        /\ supPc = "done"
  /\ supPc \in {"close", "done"} => AllExited /\ wg = 0

\* The result channel is closed after a worker emitted a record while the
\* other worker was still in its loop.
C1_Witness ==
  /\ completedClosed
  /\ \E i \in Ids : hist.emitted[i] = 1
  /\ \E w \in Workers : workerStats[w].recipesProcessed = 0

\* C2: under fair scheduling every run terminates: once discovery has closed
\* recipeURLs, all workers exit, completedRecipes is closed, the collector
\* signals done and main receives the signal; main reaches its end.
C2_Terminates ==
  /\ recipeURLsClosed ~> (AllExited /\ completedClosed /\ collPc = "exited" /\ Drained)
  /\ <>(mainPc = "finished")

\* A run in which every detail fetch failed has terminated.
C2_Witness ==
  /\ mainPc = "finished"
  /\ hist.fetchErr = 2
  /\ hist.fetchOk = 0

\* ------------------------------------------ items
\* C3: every item enqueued into recipeURLs is dequeued by exactly one worker
\* and processed exactly once: at any time an enqueued item is either still in
\* the channel or was taken once, at most one worker holds it, it has at most
\* one outcome, and once all workers have exited it has exactly one.
C3_DequeuedExactlyOnce ==
  \A i \in Ids :
    /\ Len(hist.takenBy[i]) <= 1
    /\ Cardinality(Holders(i)) <= 1
    /\ hist.takenBy[i] # <<>> => i \in hist.enqueued
    /\ i \in hist.enqueued => (InQueue(i) <=> hist.takenBy[i] = <<>>)
    /\ hist.completed[i] + hist.failed[i] <= Len(hist.takenBy[i])
    /\ (AllExited /\ i \in hist.enqueued) =>
         /\ Len(hist.takenBy[i]) = 1
         /\ hist.completed[i] + hist.failed[i] = 1

\* Two items were taken by two different workers, and both workers have exited.
C3_Witness ==
  /\ AllExited
  /\ \E i, j \in Ids : /\ i # j
                       /\ hist.takenBy[i] # <<>>
                       /\ hist.takenBy[j] # <<>>
                       /\ hist.takenBy[i] # hist.takenBy[j]

\* C4: the final collection read by main holds no two records with the same
\* Page.
C4_NoDuplicatePages ==
  \A i, j \in 1..Len(saved.recipes) :
    i # j => saved.recipes[i].page # saved.recipes[j].page

\* C5: once main has received done, RecipesCompleted + RecipesFailed <=
\* RecipesFound, and adding the discovered items that no worker dequeued still
\* does not exceed RecipesFound.
C5_CountsBoundedAtDrain ==
  Drained =>
    /\ stats.recipesCompleted + stats.recipesFailed <= stats.recipesFound
    /\ stats.recipesCompleted + stats.recipesFailed + itemsDropped
         <= stats.recipesFound

\* Drained, with one recipe completed, and one discovered but never dequeued.
C5_Witness ==
  /\ Drained
  /\ itemsDropped = 1
  /\ stats.recipesCompleted + stats.recipesFailed = 1

\* C6: each dequeued item has exactly one outcome: while a worker holds it, at
\* most one of RecipesCompleted / RecipesFailed was incremented for it and a
\* record is sent only after the completed increment; once the worker has let
\* go of it, exactly one was incremented, and a record was sent once if it
\* completed and never if it failed.  The counters are the sums of the
\* outcomes.
C6_ExactlyOneOutcome ==
  /\ \A i \in Ids :
       /\ hist.completed[i] + hist.failed[i] <= 1
       /\ hist.emitted[i] <= hist.completed[i]
       /\ hist.failed[i] = 1 => hist.emitted[i] = 0
       /\ (hist.takenBy[i] # <<>> /\ Holders(i) = {}) =>
            /\ hist.completed[i] + hist.failed[i] = 1
            /\ hist.emitted[i] = hist.completed[i]
  /\ stats.recipesCompleted = SumTo(hist.completed, MaxCards)
  /\ stats.recipesFailed = SumTo(hist.failed, MaxCards)

\* One item completed and its record was sent, another failed, and no worker
\* holds either.
C6_Witness ==
  \E i, j \in Ids :
    /\ hist.emitted[i] = 1
    /\ hist.failed[j] = 1
    /\ Holders(i) = {}
    /\ Holders(j) = {}

\* ------------------------------------------ end to end
\* C7: when no listing fetch failed, no page had a next link, every detail
\* fetch succeeded and no recipe was ignored for a full channel (which cannot
\* happen while the number of listed items is within the capacity of
\* recipeURLs), the collection read by main holds exactly as many records as
\* the categories listed, and RecipesFound and RecipesCompleted equal that
\* number, with RecipesFailed = 0.
C7_AllSucceed ==
  /\ ListedTotal <= QueueCap => hist.dropped = 0
  /\ (saved.read /\ ~hist.listErr /\ ~hist.paged /\ hist.fetchErr = 0
        /\ hist.dropped = 0) =>
       /\ Len(saved.recipes) = ListedTotal
       /\ stats.recipesFound = ListedTotal
       /\ stats.recipesCompleted = ListedTotal
       /\ stats.recipesFailed = 0

\* Two categories listed one item each, all fetches succeeded, nothing was
\* dropped, and main has read the two records.
C7_Witness ==
  /\ saved.read
  /\ ~hist.listErr /\ ~hist.paged /\ hist.fetchErr = 0 /\ hist.dropped = 0
  /\ \A c \in Cats : hist.listed[c] = 1
  /\ Len(saved.recipes) = NumCats

\* C8: with K items listed, none ignored for a full channel, and F detail
\* fetches failing, the collection read by main holds K - F records,
\* RecipesFailed = F, and the reported success rate is (K - F) / K * 100 to the
\* nearest tenth.
C8_PartialFailure ==
  (saved.reported /\ hist.dropped = 0 /\ ListedTotal >= 1) =>
    /\ Len(saved.recipes) = ListedTotal - hist.fetchErr
    /\ stats.recipesFailed = hist.fetchErr
    /\ ~saved.successRate.nan
    /\ 2 * Abs(saved.successRate.tenths * ListedTotal
               - 1000 * (ListedTotal - hist.fetchErr)) <= ListedTotal

\* One category listed two items, one of the two detail fetches failed, and
\* the report gives 50.0 %.
C8_Witness ==
  /\ saved.reported
  /\ hist.dropped = 0
  /\ \E c \in Cats : hist.listed[c] = 2
  /\ hist.fetchErr = 1
  /\ Len(saved.recipes) = 1
  /\ saved.successRate = [nan |-> FALSE, tenths |-> 500]

\* ------------------------------------------ discovery
\* C9: a category whose every fetched page succeeded and linked to the next
\* has had exactly maxPages listing pages fetched when its visit is over.
C9_ExactlyMaxPages ==
  \A c \in Cats :
    ((c < catIdx \/ mainPc \notin {"visit", "cards"}) /\ hist.chained[c]) =>
      hist.fetches[c] = maxPages

\* C10: recipeURLs is closed only once main has left the loop over the
\* categories, every category having been visited and the last visit, with its
\* pagination, having returned; and no send on the closed recipeURLs happens.
C10_ItemQueueClosedAfterDiscovery ==
  /\ ~hist.sendOnClosedURLs
  /\ recipeURLsClosed =>
       /\ mainPc \in {"waitDone", "save", "printStats", "finished"}
       /\ catIdx = NumCats
       /\ \A c \in Cats : hist.fetches[c] >= 1

\* recipeURLs is closed with an item still buffered, after the last category
\* followed a next link.
C10_Witness ==
  /\ recipeURLsClosed
  /\ recipeURLs # <<>>
  /\ hist.fetches[NumCats] >= 2

\* C11: closing the Item Queue loses nothing.  A worker is past its range
\* loop only when the queue is closed and empty; once the barrier of the
\* supervisor has completed the queue is empty and every item that was
\* enqueued, those still buffered at the close included, was taken by a
\* worker and processed to its outcome.
C11_CloseLosesNothing ==
  /\ \A w \in Workers :
       wPc[w] \in {"done", "exited"} => recipeURLsClosed /\ recipeURLs = <<>>
  /\ supPc \in {"close", "done"} =>
       /\ recipeURLs = <<>>
       /\ hist.atClose \subseteq hist.enqueued
       /\ \A i \in hist.enqueued :
            /\ Len(hist.takenBy[i]) = 1
            /\ hist.completed[i] + hist.failed[i] = 1
            /\ Holders(i) = {}

C11_Witness ==
  /\ supPc = "done"
  /\ hist.atClose # {}
  /\ \A i \in hist.atClose : hist.completed[i] = 1

\* C12: the collector signals done only after it has drained the closed
\* Result Queue, and main neither reads the final collection (save) nor
\* runs printDetailedStats (CalculateFinalStats) before the queue is closed
\* and drained: from then on the slice holds every emitted record and what
\* main read is that slice.
C12_ReadAfterDrain ==
  /\ collPc \in {"signal", "exited"} =>
       completedClosed /\ completedRecipes = <<>>
  /\ (Drained \/ saved.read \/ saved.reported) =>
       /\ completedClosed
       /\ completedRecipes = <<>>
       /\ collPc = "exited"
       /\ Len(recipes) = SumTo(hist.emitted, MaxCards)
  /\ saved.read => saved.recipes = recipes

C12_Witness ==
  /\ saved.read
  /\ saved.reported
  /\ Len(saved.recipes) >= 1

\* C13: each queue is closed exactly once and only by its producer side.
\* Every step that closes recipeURLs is the close of main after discovery,
\* every step that closes completedRecipes is the close of the supervisor
\* after its barrier; no step of a worker or of the collector closes a
\* queue, no queue is closed a second time or reopened, and a finished run
\* has closed each queue once.
C13_ClosedOnceByProducer ==
  [][/\ (recipeURLsClosed' # recipeURLsClosed) =>
          /\ ~recipeURLsClosed
          /\ mainPc = "close" /\ mainPc' = "waitDone"
          /\ supPc' = supPc /\ wPc' = wPc /\ collPc' = collPc
     /\ (completedClosed' # completedClosed) =>
          /\ ~completedClosed
          /\ supPc = "close" /\ supPc' = "done"
          /\ mainPc' = mainPc /\ wPc' = wPc /\ collPc' = collPc
     /\ hist'.closes.recipeURLs = (IF recipeURLsClosed' THEN 1 ELSE 0)
     /\ hist'.closes.completedRecipes = (IF completedClosed' THEN 1 ELSE 0)
     /\ mainPc' = "finished" => recipeURLsClosed' /\ completedClosed'
    ]_vars

C13_Witness ==
  /\ mainPc = "finished"
  /\ hist.closes = [recipeURLs |-> 1, completedRecipes |-> 1]
  /\ recipes # <<>>

\* C14: a full Item Queue never blocks discovery.  With the queue full the
\* card handler can still take its step for a valid element, every valid
\* element is counted in recipesFound whether queued or dropped, and a
\* dropped item is never in the queue, never taken by a worker and counted
\* neither completed nor failed.
DroppedIds == Discovered \ hist.enqueued

C14_FullQueueDrops ==
  /\ (mainPc = "cards" /\ hist.nextId <= MaxCards /\ Len(recipeURLs) = QueueCap)
       => ENABLED <<MainOnCard>>_vars
  /\ stats.recipesFound = Cardinality(Discovered)
  /\ hist.dropped = Cardinality(DroppedIds)
  /\ \A i \in DroppedIds :
       /\ ~InQueue(i)
       /\ hist.takenBy[i] = <<>>
       /\ Holders(i) = {}
       /\ hist.completed[i] = 0
       /\ hist.failed[i] = 0
       /\ hist.emitted[i] = 0

C14_Witness ==
  /\ hist.dropped >= 1
  /\ hist.enqueued # {}
  /\ mainPc = "finished"
  /\ stats.recipesFound = stats.recipesCompleted + stats.recipesFailed + hist.dropped

\* C15: a failed detail fetch is counted once and is final.  An item whose
\* fetch failed has itemsFailed counted exactly once for it, was requested
\* exactly once, is not put back on the queue and is held by no worker: its
\* worker is back in the range loop or beyond it, never stopped.  No worker
\* is stopped by a failure, and recipesFailed is the number of failures.
C15_FailureIsFinal ==
  /\ \A i \in Ids :
       /\ hist.failed[i] <= 1
       /\ hist.failed[i] = 1 =>
            /\ hist.requests[i] = 1
            /\ Len(hist.takenBy[i]) = 1
            /\ ~InQueue(i)
            /\ Holders(i) = {}
            /\ hist.completed[i] = 0
  /\ \A w \in Workers : wPc[w] # "panic"
  /\ stats.recipesFailed = hist.fetchErr
  /\ stats.recipesFailed = SumTo(hist.failed, MaxCards)

\* an item failed, its worker went on to take and complete the next item,
\* and the run finished
C15_Witness ==
  /\ mainPc = "finished"
  /\ \E i, j \in Ids :
       /\ i < j
       /\ hist.failed[i] = 1
       /\ hist.completed[j] = 1
       /\ hist.takenBy[i] = hist.takenBy[j]
       /\ Len(hist.takenBy[i]) = 1

\* C16: each worker writes its WorkerStats into stats.WorkerStats exactly
\* once, in one locked step, when it leaves its loop.  While a worker is
\* unborn or in its loop the map has no entry for its id; once it is past
\* the loop the map holds its entry, written once, equal to the worker's
\* final private record, and the map has entries for workers only.
C16_PublishedOnceAtExit ==
  /\ DOMAIN stats.workerStats \subseteq Workers
  /\ \A w \in Workers :
       /\ hist.published[w] <= 1
       /\ (w \in DOMAIN stats.workerStats) <=> (wPc[w] \in {"done", "exited"})
       /\ (w \in DOMAIN stats.workerStats) <=> (hist.published[w] = 1)
       /\ (w \in DOMAIN stats.workerStats) => stats.workerStats[w] = workerStats[w]
  /\ \A a \in hist.access :
       (a.field = "workerStats" /\ a.kind = "write") =>
          a.unit = "worker" /\ a.locked

\* every worker has published, one of them with work done
C16_Witness ==
  /\ DOMAIN stats.workerStats = Workers
  /\ \E w \in Workers : stats.workerStats[w].recipesProcessed >= 1
  /\ \A w \in Workers : hist.published[w] = 1

\* C17: no unsynchronized access to ScrapingStats.  Every read or write of
\* a counter or of the WorkerStats map is made with s.Mutex held, or at
\* least not while another unit that writes the field may be running.
C17_NoUnsynchronizedAccess ==
  \A a \in hist.access : a.locked \/ ~a.concurrentWriter

\* ------------------------------------------ the ScrapingStats object alone
\* Callers invoke the methods of one ScrapingStats in any order, as the
\* goroutines of the pipeline or any other client may.
StatsInit ==
  /\ Init
  /\ pathStyle = "query"

coreVars == <<mainPc, catIdx, pageNo, pathStyle, visitedPages, recipeURLs,
              recipeURLsClosed, completedRecipes, completedClosed, semaphore,
              wg, supPc, supI, wPc, wItem, workerStats, collPc, recipes, saved>>
pipeVars == <<coreVars, callVars>>

CallIncrement ==
  /\ \E f \in {"mainPageRequests", "recipeRequests", "recipesFound",
                "recipesCompleted", "recipesFailed"} :
       /\ stats[f] < MaxCalls
       /\ stats' = CASE f = "mainPageRequests" -> IncrementMainPageRequest(stats)
                     [] f = "recipeRequests" -> IncrementRecipeRequest(stats)
                     [] f = "recipesFound" -> IncrementRecipesFound(stats)
                     [] f = "recipesCompleted" -> IncrementRecipesCompleted(stats)
                     [] f = "recipesFailed" -> IncrementRecipesFailed(stats)
       /\ hist' = Locked(hist, "caller", {f}, "write")
  /\ UNCHANGED <<pipeVars, detailedStats, topo>>

CallUpdateWorkerStats ==
  /\ \E w \in Workers, requests \in 0..1, processed \in 0..1 :
       /\ w \in DOMAIN stats.workerStats =>
            /\ stats.workerStats[w].requestsHandled + requests <= MaxCalls
            /\ stats.workerStats[w].recipesProcessed + processed <= MaxCalls
       /\ stats' = UpdateWorkerStats(stats, w, requests, processed)
  /\ hist' = Locked(hist, "caller", {"workerStats"}, "write")
  /\ UNCHANGED <<pipeVars, detailedStats, topo>>

CallGetDetailedStats ==
  /\ detailedStats.serial < MaxCalls
  /\ detailedStats' = GetDetailedStats(stats, detailedStats.serial + 1)
  /\ hist' = Locked(hist, "caller", StatsFields, "read")
  /\ UNCHANGED <<pipeVars, stats, topo>>

StatsNext == CallIncrement \/ CallUpdateWorkerStats \/ CallGetDetailedStats

StatsSpec == StatsInit /\ [][StatsNext]_vars

\* what a reader of the returned struct sees: its own counters, and the
\* entries of the map it holds
Seen(ds) ==
  [ds EXCEPT !.workerStats = IF ds.sharesMap THEN stats.workerStats ELSE @]

\* C18: GetDetailedStats returns a point-in-time copy.  From the return of a
\* call on, no step that is not another call of GetDetailedStats changes
\* what the returned struct shows, counters and entries of the WorkerStats
\* map alike.
C18_SnapshotIsCopy ==
  [][(detailedStats.serial > 0 /\ detailedStats'.serial = detailedStats.serial)
       => Seen(detailedStats)' = Seen(detailedStats)]_vars

\* ------------------------------------------ the topology estimator alone
\* One call of calculateOptimalWorkers with any limits on any host.
TopologyInit ==
  /\ InitPipeline
  /\ pathStyle = "query"
  /\ detailedStats = NoDetailedStats
  /\ topo \in [called : {FALSE},
                numLogicalCPU : (0 - BelowZeroCPU)..MaxLogicalCPU,
                minWorkers : 1..MaxMinWorkers,
                maxWorkers : 1..MaxMaxWorkers,
                optimalWorkers : {0}]

CallCalculateOptimalWorkers ==
  /\ ~topo.called
  /\ topo' = [topo EXCEPT
                !.called = TRUE,
                !.optimalWorkers = calculateOptimalWorkers(
                    topo.numLogicalCPU, topo.minWorkers, topo.maxWorkers)]
  /\ UNCHANGED <<pipeVars, stats, detailedStats, hist>>

TopologyNext == CallCalculateOptimalWorkers

TopologySpec == TopologyInit /\ [][TopologyNext]_vars

\* the product of the estimate and the ratio, before the limits
Product(numLogicalCPU) ==
  getPhysicalCores(numLogicalCPU) * calculateAdaptiveRatio(getPhysicalCores(numLogicalCPU))

\* C19: for limits minWorkers <= maxWorkers, calculateOptimalWorkers returns
\* a count within [minWorkers, maxWorkers] whatever number of logical
\* contexts the host reports.
C19_WithinLimits ==
  (topo.called /\ topo.minWorkers <= topo.maxWorkers) =>
     /\ topo.minWorkers <= topo.optimalWorkers
     /\ topo.optimalWorkers <= topo.maxWorkers

\* a call whose product was above maxWorkers, on a host with hyperthreading
C19_Witness ==
  /\ topo.called
  /\ topo.minWorkers <= topo.maxWorkers
  /\ topo.numLogicalCPU = 8
  /\ Product(topo.numLogicalCPU) > topo.maxWorkers
  /\ topo.optimalWorkers = topo.maxWorkers

\* C20, as stated: with exactly 1 logical context, minWorkers = 1 and
\* maxWorkers >= 1, the worker count is exactly 1.
C20_SingleContextOneWorker ==
  (topo.called /\ topo.numLogicalCPU = 1 /\ topo.minWorkers = 1
     /\ topo.maxWorkers >= 1) => topo.optimalWorkers = 1

\* C20, amended: with exactly 1 logical context and minWorkers = 1 the
\* estimate is 1 core at ratio 3, so the worker count is 3, or maxWorkers
\* when that is less than 3.
C20_SingleContextThreeWorkers ==
  (topo.called /\ topo.numLogicalCPU = 1 /\ topo.minWorkers = 1
     /\ topo.maxWorkers >= 1) =>
       topo.optimalWorkers = (IF topo.maxWorkers < 3 THEN topo.maxWorkers ELSE 3)

C20_Witness ==
  /\ topo.called
  /\ topo.numLogicalCPU = 1
  /\ topo.minWorkers = 1
  /\ topo.maxWorkers >= 3
  /\ topo.optimalWorkers = 3

\* C21: on a host that reports 0 or a negative number of logical contexts,
\* calculateOptimalWorkers returns exactly minWorkers, for limits
\* 1 <= minWorkers <= maxWorkers.
C21_DegenerateHostGivesMin ==
  (topo.called /\ topo.numLogicalCPU <= 0 /\ topo.minWorkers <= topo.maxWorkers)
     => topo.optimalWorkers = topo.minWorkers

\* a call on a host reporting a negative count, with a minimum above 1
C21_Witness ==
  /\ topo.called
  /\ topo.numLogicalCPU < 0
  /\ topo.minWorkers > 1
  /\ topo.minWorkers < topo.maxWorkers
  /\ topo.optimalWorkers = topo.minWorkers

\* The estimate as the specification gives it: the table of common counts,
\* otherwise half of an even count and the count itself when odd.
CommonCounts == {<<1, 1>>, <<2, 2>>, <<4, 2>>, <<6, 6>>, <<8, 4>>, <<12, 6>>,
                 <<16, 8>>, <<24, 12>>, <<32, 16>>}
EstimateP(L) ==
  IF \E e \in CommonCounts : e[1] = L
    THEN (CHOOSE e \in CommonCounts : e[1] = L)[2]
    ELSE IF L % 2 = 0 THEN L \div 2 ELSE L
RatioR(p) == IF p <= 2 THEN 3 ELSE IF p <= 8 THEN 2 ELSE 1
Clamp(x, lo, hi) == IF x < lo THEN lo ELSE IF x > hi THEN hi ELSE x

\* C32: for every number of logical contexts and limits
\* minWorkers <= maxWorkers, calculateOptimalWorkers returns
\* clamp(P * R(P), minWorkers, maxWorkers), P being the table value of a
\* common count, half of any other even count and the count itself otherwise,
\* and R(P) being 3 for P <= 2, 2 for 3 <= P <= 8 and 1 for P > 8.
C32_EstimateTimesRatioClamped ==
  (topo.called /\ topo.minWorkers <= topo.maxWorkers) =>
    topo.optimalWorkers =
      Clamp(EstimateP(topo.numLogicalCPU) * RatioR(EstimateP(topo.numLogicalCPU)),
            topo.minWorkers, topo.maxWorkers)

\* 10 logical contexts, a count that is not in the table: 5 cores, ratio 2,
\* 10 workers, within the limits
C32_Witness ==
  /\ topo.called
  /\ topo.numLogicalCPU = 10
  /\ topo.minWorkers < 10
  /\ topo.maxWorkers > 10
  /\ topo.optimalWorkers = 10

\* ------------------------------------------ CalculateFinalStats alone
\* Counters are incremented and CalculateFinalStats is called, at readings
\* of a clock that does not run backwards, in any order.
CallCalculateFinalStats ==
  /\ hist.finalized < MaxFinalStats
  /\ \E now \in stats.endTime..MaxElapsed :
       stats' = CalculateFinalStats(stats, now)
  /\ hist' = [Locked(Locked(hist, "caller", {"totalRequests", "recipesCompleted"}, "read"),
                      "caller", {"requestsPerSecond", "recipesPerSecond"}, "write")
                EXCEPT !.finalized = @ + 1]
  /\ UNCHANGED <<pipeVars, detailedStats, topo>>

FinalStatsNext == CallIncrement \/ CallCalculateFinalStats

FinalStatsSpec == StatsInit /\ [][FinalStatsNext]_vars

\* C22: CalculateFinalStats never divides by zero.  After any call both
\* rates are finite; while the elapsed time is 0 they are 0; a call at an
\* elapsed time d > 0 sets them to totalRequests / d and
\* recipesCompleted / d.
C22_NoDivisionByZero ==
  [][hist'.finalized # hist.finalized =>
       /\ IsFinite(stats'.requestsPerSecond)
       /\ IsFinite(stats'.recipesPerSecond)
       /\ stats'.totalDuration = 0 =>
            /\ IsZeroFloat(stats'.requestsPerSecond)
            /\ IsZeroFloat(stats'.recipesPerSecond)
       /\ stats'.totalDuration > 0 =>
            /\ stats'.requestsPerSecond =
                 FloatDiv(stats.totalRequests, stats'.totalDuration)
            /\ stats'.recipesPerSecond =
                 FloatDiv(stats.recipesCompleted, stats'.totalDuration)]_vars

\* a call at elapsed time 0 with requests counted, and rates still 0
C22_Witness ==
  /\ hist.finalized >= 1
  /\ stats.totalDuration = 0
  /\ stats.totalRequests >= 1
  /\ stats.recipesCompleted >= 1
  /\ IsZeroFloat(stats.requestsPerSecond)

\* C23, as stated: at the end of every run the success rate
\* completed / found * 100 has been computed and reported, whatever the
\* outcome counts.
C23_RateAlwaysReported ==
  mainPc = "finished" => saved.reported

\* ------------------------------------------------- the card handler alone
\* The card handler is given listing elements one by one, valid or not,
\* while workers take items from the channel.
CardInit == Init /\ pathStyle = "query"

CallOnCard ==
  /\ UNCHANGED moreVars
  /\ http' = http
  /\ ua' = ua
  /\ mainPc = "cards"
  /\ card.n < MaxElements
  /\ hist.nextId <= MaxCards
  /\ \E page \in URLs \cup {""}, title \in Titles \cup {""} :
       /\ OnCard(page, title)
       /\ card' = [n |-> card.n + 1, page |-> page, title |-> title]
  /\ UNCHANGED <<discVars, pathStyle, detailedStats, topo, recipeURLsClosed,
                 completedRecipes, completedClosed, poolVars, collVars, saved>>

CardNext ==
  \/ MainVisitOk
  \/ CallOnCard
  \/ SupSpawn
  \/ \E w \in Workers : WorkerDequeue(w)

CardSpec == CardInit /\ [][CardNext]_vars

\* C24: the card handler increments RecipesFound and attempts the send (the
\* item is appended to recipeURLs, or ignored because the channel is full)
\* if and only if both the URL and the title of the element are non-empty;
\* an element with an empty URL or an empty title changes no counter and
\* leaves the channel as it is.
C24_CountsValidCardsOnly ==
  [][card' # card =>
       IF card'.page # "" /\ card'.title # ""
         THEN /\ stats' = [stats EXCEPT !.recipesFound = @ + 1]
              /\ \/ /\ Len(recipeURLs) < QueueCap
                    /\ recipeURLs' = Append(recipeURLs,
                                        [id |-> hist.nextId, url |-> card'.page])
                    /\ hist'.dropped = hist.dropped
                 \/ /\ Len(recipeURLs) = QueueCap
                    /\ recipeURLs' = recipeURLs
                    /\ hist'.dropped = hist.dropped + 1
         ELSE /\ stats' = stats
              /\ recipeURLs' = recipeURLs
              /\ hist'.dropped = hist.dropped
              /\ hist'.enqueued = hist.enqueued]_vars

\* a valid element was counted and queued, then an element with a link and
\* no title was handled and nothing moved
C24_Witness ==
  /\ card.n = 2
  /\ card.page # ""
  /\ card.title = ""
  /\ stats.recipesFound = 1
  /\ Len(recipeURLs) = 1

\* the workers inside processRecipeReusable
Processing == {w \in Workers : wPc[w] \in {"fetch", "emit"}}

\* C25: the slots taken in the semaphore are those of the workers inside
\* processRecipeReusable, one each, so never more than MaxWorkers items are
\* being processed; a worker about to take a slot finds one free; a worker
\* back in its range loop or past it, after a success or a failure, holds
\* none, and none is held once every worker has exited.
C25_SlotPerWorker ==
  /\ semaphore = Cardinality(Processing)
  /\ Cardinality(Processing) <= MaxWorkers
  /\ \A w \in Workers : wPc[w] = "acquire" => ENABLED WorkerAcquire(w)
  /\ AllExited => semaphore = 0

\* one worker is processing an item after the fetch of the other item has
\* failed and its slot has been given back
C25_Witness ==
  /\ semaphore = 1
  /\ hist.fetchErr = 1
  /\ \E w \in Workers : wPc[w] = "fetch"

\* the next-page links of category c that the pagination handler followed
RECURSIVE FollowedUpTo(_, _)
FollowedUpTo(c, p) ==
  IF p = 0 THEN 0 ELSE visitedPages[<<c, p>>] + FollowedUpTo(c, p - 1)
Followed(c) == FollowedUpTo(c, SitePages)

\* C26 (state part): listing pages are fetched by main alone, one Visit at
\* a time.  A category after the current one has no fetch yet; a category
\* before it, or any category once the loop is over, has had its first page
\* and every followed next-page link fetched; the current one lacks exactly
\* the page main is about to visit.
PagesInOrder ==
  \A c \in Cats :
    IF mainPc \in {"visit", "cards"} /\ c > catIdx
      THEN hist.fetches[c] = 0 /\ Followed(c) = 0
      ELSE IF mainPc = "visit" /\ c = catIdx
        THEN hist.fetches[c] = Followed(c)
        ELSE hist.fetches[c] = 1 + Followed(c)

\* C26: at most one listing page is fetched at a time, the pages of a
\* category one after another, and category i+1 is started only after the
\* first page of category i and all its followed next pages have been
\* fetched.
C26_DiscoverySequential ==
  [][/\ PagesInOrder'
     /\ catIdx' \in {catIdx, catIdx + 1}
     /\ \A c \in Cats :
          hist'.fetches[c] # hist.fetches[c] =>
            /\ c = catIdx
            /\ mainPc = "visit"
            /\ hist'.fetches[c] = hist.fetches[c] + 1
            /\ \A d \in Cats \ {c} : hist'.fetches[d] = hist.fetches[d]]_vars

\* the second category is being fetched after the first one had its first
\* page and a followed next page fetched
C26_Witness ==
  /\ catIdx = 2
  /\ hist.fetches[1] = 2
  /\ Followed(1) = 1
  /\ hist.fetches[2] = 1

\* ------------------------------------------------- one collector alone
\* The two scraper programs of the repository and their collectors.
Programs == {"part_001", "main.go"}
Kinds == {"discovery", "detail"}
\* StatusCode of a failed response; 0 when there was no response at all
ErrorCodes == {0, 403, 404, 429, 500}

\* whether the function that builds the collector registers an OnError
\* handler: createMainCollectorWithPagination of src/main.go does not
HasOnError(program, kind) == ~(program = "main.go" /\ kind = "discovery")

\* rand.Intn(maxMs - minMs) in place of rand.Intn(maxMs - minMs + 1)
getRandomDelayBelowMax(minMs, maxMs) ==
  IF maxMs <= minMs THEN {minMs} ELSE {minMs + k : k \in 0..(maxMs - minMs - 1)}

\* the durations, in milliseconds, getRandomDelay(minMs, maxMs) can return
getRandomDelay(minMs, maxMs) ==
  IF maxMs <= minMs THEN {minMs} ELSE {minMs + k : k \in 0..(maxMs - minMs)}

\* time slept by the OnError handler for a status code
OnErrorSleeps(statusCode) ==
  IF statusCode = 403 \/ statusCode = 429
    THEN getRandomDelay(10000, 20000)
    ELSE {0}

CollectorInit == Init /\ pathStyle = "query"

\* NewCollector in one of the programs
CreateCollector ==
  /\ http = NoCollector
  /\ \E program \in Programs, kind \in Kinds :
       http' = [NoCollector EXCEPT !.program = program, !.kind = kind]
  /\ UNCHANGED <<coreVars, stats, detailedStats, topo, card, ua, moreVars, hist>>

\* collector.Visit(url): the request is issued and answered, with a page or
\* with an error; on an error the OnError handlers run before Visit returns.
CollectorVisit ==
  /\ http.program # ""
  /\ http.pc = "idle"
  /\ http.requests < MaxVisits
  /\ \E statusCode \in ErrorCodes \cup {200} :
       http' = [http EXCEPT !.requests = @ + 1, !.statusCode = statusCode,
                            !.slept = 0,
                            !.pc = IF statusCode = 200 THEN "idle" ELSE "onError"]
  /\ UNCHANGED <<coreVars, stats, detailedStats, topo, card, ua, moreVars, hist>>

\* The OnError handler of the collector, if it has one, then Visit returns.
CollectorOnError ==
  /\ http.pc = "onError"
  /\ IF HasOnError(http.program, http.kind)
       THEN \E d \in OnErrorSleeps(http.statusCode) :
              http' = [http EXCEPT !.slept = d, !.pc = "idle"]
       ELSE http' = [http EXCEPT !.pc = "idle"]
  /\ UNCHANGED <<coreVars, stats, detailedStats, topo, card, ua, moreVars, hist>>

CollectorNext == CreateCollector \/ CollectorVisit \/ CollectorOnError

CollectorSpec == CollectorInit /\ [][CollectorNext]_vars

\* C27: on the discovery collector and on the detail collector, when a
\* Visit has returned after a response with status 403 or 429 the collector
\* has slept 10 to 20 seconds, so that its next request comes after the
\* cooldown; after any other error it has not slept.
C27_CooldownAfterRateLimit ==
  (http.pc = "idle" /\ http.requests >= 1 /\ http.statusCode # 200) =>
    IF http.statusCode \in {403, 429}
      THEN http.slept \in 10000..20000
      ELSE http.slept = 0

\* the loop over the categories is over and the Visit of every category
\* returned an error on its first page
EveryVisitFailed ==
  /\ mainPc \notin {"visit", "cards"}
  /\ hist.visitErrs = NumCats
  /\ \A c \in Cats : hist.fetches[c] = 1

\* C28: a Visit that returns an error is followed by the Visit of the next
\* category, or by the close of recipeURLs after the last one; after an
\* error every category is still visited and recipeURLs closed; and when the
\* Visit of every category fails the run still ends, with an empty
\* collection saved.
C28_ErrorsDoNotStopDiscovery ==
  /\ [][hist'.visitErrs # hist.visitErrs =>
         IF catIdx < NumCats
           THEN mainPc' = "visit" /\ catIdx' = catIdx + 1
           ELSE mainPc' = "close"]_vars
  /\ [](hist.visitErrs >= 1 /\ mainPc \notin {"visit", "cards"} =>
          /\ \A c \in Cats : hist.fetches[c] >= 1
          /\ mainPc # "close" => recipeURLsClosed)
  /\ (hist.visitErrs >= 1) ~> recipeURLsClosed
  /\ [](EveryVisitFailed /\ saved.read => saved.recipes = <<>>)
  /\ EveryVisitFailed ~> (mainPc = "finished" /\ saved.read /\ recipes = <<>>)

\* every Visit failed and the run is over with nothing collected
C28_Witness ==
  /\ EveryVisitFailed
  /\ mainPc = "finished"
  /\ recipeURLsClosed
  /\ saved.recipes = <<>>

\* ------------------------------------------------ getRandomUserAgent alone
\* (userAgentIndex + 1) % len(userAgents), skipping every other entry
NextIndexSkips(i) == (i + 2) % Len(userAgents)

\* (userAgentIndex + 1) % len(userAgents)
NextIndex(i) == (i + 1) % Len(userAgents)

UserAgentInit == Init /\ pathStyle = "query"

\* a goroutine calls getRandomUserAgent
UserAgentCall(c) ==
  /\ ua.pc[c] = "idle"
  /\ ua.started < MaxAgentCalls
  /\ ua' = [ua EXCEPT !.pc[c] = "lock", !.started = @ + 1]

\* The function is entered without the mutex.
UserAgentLockSkipped(c) ==
  /\ ua.pc[c] = "lock"
  /\ ua' = [ua EXCEPT !.pc[c] = "read"]

\* userAgentMutex.Lock()
UserAgentLock(c) ==
  /\ ua.pc[c] = "lock"
  /\ ua.mutex = 0
  /\ ua' = [ua EXCEPT !.mutex = c, !.pc[c] = "read"]

\* the read of userAgentIndex in the right-hand side of the assignment
UserAgentRead(c) ==
  /\ ua.pc[c] = "read"
  /\ ua' = [ua EXCEPT !.tmp[c] = ua.index, !.pc[c] = "write"]

\* the assignment to userAgentIndex
UserAgentWrite(c) ==
  /\ ua.pc[c] = "write"
  /\ ua' = [ua EXCEPT !.index = NextIndex(ua.tmp[c]), !.written = @ + 1,
                      !.pc[c] = "return"]

\* return userAgents[userAgentIndex], then the deferred Unlock
UserAgentReturn(c) ==
  /\ ua.pc[c] = "return"
  /\ ua' = [ua EXCEPT !.returned = Append(@, userAgents[ua.index + 1]),
                      !.mutex = 0, !.pc[c] = "idle"]

UserAgentNext ==
  /\ \E c \in Callers :
       \/ UserAgentCall(c)
       \/ UserAgentLock(c)
       \/ UserAgentRead(c)
       \/ UserAgentWrite(c)
       \/ UserAgentReturn(c)
  /\ UNCHANGED <<coreVars, stats, detailedStats, topo, card, http, moreVars, hist>>

UserAgentSpec == UserAgentInit /\ [][UserAgentNext]_vars

\* userAgents[k mod 8], the slice being indexed from 0
pool(k) == userAgents[(k % 8) + 1]

C30_IndexAdvancesOncePerCall ==
  /\ ua.index \in 0..7
  /\ ua.index = ua.written % 8
  /\ Cardinality({c \in Callers : ua.pc[c] \in {"read", "write", "return"}}) <= 1
  /\ ua.written \in {Len(ua.returned), Len(ua.returned) + 1}
  /\ (\A c \in Callers : ua.pc[c] \in {"idle", "lock"}) =>
       ua.index = Len(ua.returned) % 8

\* a caller waits at the Lock while the other is about to assign the index
\* for the ninth call
C30_Witness ==
  /\ ua.pc[1] = "lock"
  /\ ua.pc[2] = "write"
  /\ Len(ua.returned) = 8
  /\ ua.index = 0

\* --------------------------------------------------- getRandomDelay alone
\* the bounds getRandomDelay is called with in the program
DelayCallSites == {<<10000, 20000>>, <<2000, 5000>>, <<5000, 10000>>,
                   <<2000, 4000>>}

DelayInit ==
  /\ InitPipeline /\ pathStyle = "query"
  /\ detailedStats = NoDetailedStats
  /\ topo = NoCall

\* One call of getRandomDelay, with small bounds in either order, negative
\* ones included, or with the bounds of a call site.
CallGetRandomDelay ==
  /\ ~delay.called
  /\ \E b \in (((0 - BelowZeroMs)..MaxMs) \X ((0 - BelowZeroMs)..MaxMs))
               \cup DelayCallSites :
       \E d \in getRandomDelay(b[1], b[2]) :
         delay' = [called |-> TRUE, minMs |-> b[1], maxMs |-> b[2], d |-> d]
  /\ UNCHANGED <<coreVars, stats, detailedStats, topo, card, http, ua, extract,
                 hist>>

DelayNext == CallGetRandomDelay

DelaySpec == DelayInit /\ [][DelayNext]_vars

\* C31: with minMs <= maxMs the delay returned by getRandomDelay is within
\* minMs..maxMs and every value of minMs..maxMs can be returned; with
\* maxMs <= minMs the delay is minMs.
C31_DelayWithinBounds ==
  delay.called =>
    /\ delay.minMs <= delay.maxMs =>
         /\ delay.minMs <= delay.d /\ delay.d <= delay.maxMs
         /\ getRandomDelay(delay.minMs, delay.maxMs) = delay.minMs..delay.maxMs
    /\ delay.maxMs <= delay.minMs => delay.d = delay.minMs

\* the cooldown of 10 to 20 seconds came out at its upper bound
C31_Witness ==
  /\ delay.called
  /\ delay.minMs = 10000
  /\ delay.maxMs = 20000
  /\ delay.d = 20000

\* ------------------------------------------ the ingredient handler alone
\* Text is a sequence of characters; " " stands for the white space.
RECURSIVE TrimLeft(_)
TrimLeft(s) == IF s # <<>> /\ Head(s) = " " THEN TrimLeft(Tail(s)) ELSE s
RECURSIVE TrimRight(_)
TrimRight(s) ==
  IF s # <<>> /\ s[Len(s)] = " " THEN TrimRight(SubSeq(s, 1, Len(s) - 1)) ELSE s
\* strings.TrimSpace
TrimSpace(s) == TrimRight(TrimLeft(s))

\* A list item: the text of its quantity, unit and name spans (empty when
\* the span is absent) and the text of the item outside the spans.
ListItems ==
  [quantity : {<<>>, <<"2">>}, unit : {<<>>, <<" ">>, <<"c">>},
   name : {<<>>, <<"f">>}, rest : {<<>>, <<" ", "r", " ">>}]

\* ingr.Text: the text of the item and of all that it contains
ItemText(li) == li.quantity \o li.unit \o li.name \o li.rest

ExtractInit == Init /\ pathStyle = "query"

\* The callback of e.ForEach for one list item.
ForEachIngredient ==
  /\ extract.n < MaxIngredients
  /\ \E li \in ListItems :
       LET quantity == TrimSpace(li.quantity)
           unit == TrimSpace(li.unit)
           name == TrimSpace(li.name)
       IN  extract' =
             [n |-> extract.n + 1,
              item |-> li,
              ingredients |->
                IF quantity # <<>> \/ unit # <<>> \/ name # <<>>
                  THEN Append(extract.ingredients,
                              [Quantity |-> TrimSpace(ItemText(li)),
                               Unit |-> <<>>])
                  ELSE extract.ingredients]
  /\ UNCHANGED <<coreVars, stats, detailedStats, topo, card, http, ua, delay,
                 hist>>

ExtractNext == ForEachIngredient

ExtractSpec == ExtractInit /\ [][ExtractNext]_vars

\* C33: a list item that has text but no quantity span and no unit span is
\* not lost: the step that handles it appends an entry whose Quantity is the
\* text of the item.
C33_UnstructuredItemKept ==
  [][(/\ extract'.n = extract.n + 1
      /\ extract'.item.quantity = <<>>
      /\ extract'.item.unit = <<>>
      /\ TrimSpace(ItemText(extract'.item)) # <<>>) =>
       /\ Len(extract'.ingredients) = Len(extract.ingredients) + 1
       /\ extract'.ingredients[Len(extract'.ingredients)].Quantity
            = TrimSpace(ItemText(extract'.item))]_vars

\* how many records of the sequence were made from item i
CountIn(seq, i) == Cardinality({k \in 1..Len(seq) : seq[k].id = i})

\* C34: the collection main reads holds exactly the records the workers
\* sent, each once: as many records as RecipesCompleted, one for each item
\* whose record was sent and none for any other item.
C34_CollectionIsWhatWasEmitted ==
  saved.read =>
    /\ Len(saved.recipes) = stats.recipesCompleted
    /\ \A i \in Ids :
         /\ hist.emitted[i] <= 1
         /\ CountIn(saved.recipes, i) = hist.emitted[i]

\* main has read two records, one for each of two items that were listed
\* with the same URL
C34_Witness ==
  /\ saved.read
  /\ Len(saved.recipes) = 2
  /\ saved.recipes[1].id # saved.recipes[2].id
  /\ saved.recipes[1].page = saved.recipes[2].page

\* C35: once main has received done, RecipesCompleted + RecipesFailed + the
\* number of recipes ignored because recipeURLs was full equals
\* RecipesFound; with no recipe ignored, RecipesCompleted + RecipesFailed
\* equals RecipesFound.
C35_ExactAccountingAtDrain ==
  Drained =>
    /\ stats.recipesCompleted + stats.recipesFailed + hist.dropped
         = stats.recipesFound
    /\ hist.dropped = 0 =>
         stats.recipesCompleted + stats.recipesFailed = stats.recipesFound

\* done received after one recipe was ignored and the fetch of the other
\* failed
C35_Witness ==
  /\ Drained
  /\ stats.recipesFound = 2
  /\ hist.dropped = 1
  /\ stats.recipesFailed = 1
  /\ stats.recipesCompleted = 0

\* C36: TotalRequests = MainPageRequests + RecipeRequests in every state
\* (the counters change inside critical sections of the mutex only), and a
\* step that changes one of the three counters raises TotalRequests by one
\* together with exactly one of the two others, by one.
C36_TotalIsSumOfRequests ==
  [][/\ stats'.totalRequests = stats'.mainPageRequests + stats'.recipeRequests
     /\ (\/ stats'.totalRequests # stats.totalRequests
         \/ stats'.mainPageRequests # stats.mainPageRequests
         \/ stats'.recipeRequests # stats.recipeRequests) =>
          /\ stats'.totalRequests = stats.totalRequests + 1
          /\ \/ /\ stats'.mainPageRequests = stats.mainPageRequests + 1
                /\ stats'.recipeRequests = stats.recipeRequests
                /\ mainPc = "visit"
             \/ /\ stats'.recipeRequests = stats.recipeRequests + 1
                /\ stats'.mainPageRequests = stats.mainPageRequests
                /\ \E w \in Workers : wPc[w] = "acquire" /\ wPc'[w] = "fetch"]_vars

\* listing pages and recipe pages have both been requested
C36_Witness ==
  /\ stats.mainPageRequests >= 2
  /\ stats.recipeRequests >= 2
  /\ stats.totalRequests = stats.mainPageRequests + stats.recipeRequests

\* the sum of a field over the entries of a map of WorkerStats
RECURSIVE SumOver(_, _, _)
SumOver(m, field, ws) ==
  IF ws = {} THEN 0
  ELSE LET w == CHOOSE x \in ws : TRUE
       IN  m[w][field] + SumOver(m, field, ws \ {w})

\* C37: a worker counts an item in its own WorkerStats only when the fetch
\* succeeded, so that the private counts add up to the records sent and a
\* failed item is in no RecipesProcessed or RequestsHandled; once wg.Wait
\* has returned, the entries of stats.WorkerStats, one per worker, add up to
\* RecipesCompleted, for RecipesProcessed and for RequestsHandled.
C37_ProcessedSumsToCompleted ==
  /\ SumOver(workerStats, "recipesProcessed", Workers) = SumTo(hist.emitted, MaxCards)
  /\ SumOver(workerStats, "requestsHandled", Workers) = SumTo(hist.emitted, MaxCards)
  /\ supPc \in {"close", "done"} =>
       /\ DOMAIN stats.workerStats = Workers
       /\ SumOver(stats.workerStats, "recipesProcessed", Workers)
            = stats.recipesCompleted
       /\ SumOver(stats.workerStats, "requestsHandled", Workers)
            = stats.recipesCompleted

\* the barrier is past, one fetch succeeded and one failed, and each of the
\* two was handled by another worker
C37_Witness ==
  /\ supPc \in {"close", "done"}
  /\ stats.recipesCompleted = 1
  /\ stats.recipesFailed = 1
  /\ \E i, j \in Ids : /\ hist.completed[i] = 1
                       /\ hist.failed[j] = 1
                       /\ hist.takenBy[i] # hist.takenBy[j]

\* C38: no counter of visitedPages ever exceeds maxPages, and the counters
\* change only when a next-page link is followed: the counter under the
\* path of the current page goes up by exactly one, from a value below
\* maxPages, and the others stay as they are.
C38_PageCounterBounded ==
  [][/\ \A k \in DOMAIN visitedPages' : visitedPages'[k] <= maxPages
     /\ (pageNo' = pageNo + 1 \/ visitedPages' # visitedPages) =>
          /\ mainPc = "cards" /\ mainPc' = "visit"
          /\ pageNo' = pageNo + 1 /\ catIdx' = catIdx
          /\ visitedPages[baseCategory(catIdx, pageNo)] < maxPages
          /\ visitedPages' =
               [visitedPages EXCEPT ![baseCategory(catIdx, pageNo)] = @ + 1]]_vars

\* with links that change the path, the second and the third page of a
\* category were both reached, each counter standing at maxPages
C38_Witness ==
  /\ pathStyle = "path"
  /\ pageNo = 3
  /\ visitedPages[<<catIdx, 1>>] = maxPages
  /\ visitedPages[<<catIdx, 2>>] = maxPages
====
